---- MODULE Spec2Model ----
(***************************************************************************)
(* AmpSignals: the audio engine (AudioEngine) of the browser amp           *)
(* simulator, as a state machine.                                          *)
(*                                                                         *)
(* Two variants of the engine live in the repository:                      *)
(*   - the modular engine (src/unnamed/part_000, driven by                 *)
(*     src/js/ui-controller.js): setAmpModel and setInternalCab are        *)
(*     synchronous, the cabinet IR is synthesized;                         *)
(*   - the bundled engine (src/unnamed/part_002): setAmpModel,             *)
(*     setInternalCab and init are async and load the cabinet IR with      *)
(*     fetch + decodeAudioData.                                            *)
(* Spec is the modular engine, SpecBundle the bundled one. SpecTone is the  *)
(* modular engine with the GAIN knob over its whole range, SpecCab the     *)
(* modular engine with the synthetic cabinet IR kept sample by sample.     *)
(*                                                                         *)
(* Numbers. Stage parameters are reals in the source. Here every stage     *)
(* parameter is stored in tenths (gain 3.0 is 30), the values passed to    *)
(* setParam are whole numbers, and a distortion amount is stored times     *)
(* 200 (amount 0.15 is 30), which keeps every product of the source exact. *)
(*                                                                         *)
(* JavaScript runs each handler to completion; a handler is one action up  *)
(* to its first await on the platform (ctx.resume, getUserMedia,           *)
(* decodeAudioData, fetch), and each continuation is one more action.      *)
(***************************************************************************)
EXTENDS Integers, Sequences, FiniteSets, TLC

VARIABLES
    ctx,            \* this.ctx with ctx.state: "null", "suspended", "running"
    ctxQueue,       \* resume()/suspend() requests the platform has not applied yet
    isInitialized,  \* this.isInitialized
    currentAmp,     \* this.currentAmp
    state,          \* this.state: [bright, drive]
    nodes,          \* this.nodes: <<>> for {}, a record of the stages after init
    starts,         \* the startInput calls in flight, each at its await
    decodes,        \* the decodeAudioData calls of loadIR in flight
    loads,          \* bundled engine: the setInternalCab calls in flight
    initPc,         \* bundled engine: where the init call in flight stands
    calls,          \* number of engine calls issued so far
    lastCall,       \* the most recent engine call: what it was, what it returned
    lastSettle,     \* the most recent completion of an async engine call
    lastPreGain,    \* the value most recently passed to setParam('preGain', .)
    curveOf,        \* the currentAmp the active curve was computed from
    ampIssue,       \* the most recent setAmpModel call, when issued on an initialized
                    \* engine: its model, whether its curve and cabinet have both been
                    \* in place since, and whether a setParam that took effect followed
    driveToggle,    \* toggleSwitch('drive', true) as the most recent call, or followed
                    \* at once by toggleSwitch('drive', false): the curve and the drive
                    \* flag from before the pair
    ui              \* the UIController and the page elements it reads and writes

vars == <<ctx, ctxQueue, isInitialized, currentAmp, state, nodes, starts, decodes,
          loads, initPc, calls, lastCall, lastSettle, lastPreGain, curveOf, ampIssue,
          driveToggle, ui>>

engine == <<ctx, ctxQueue, isInitialized, currentAmp, state, nodes>>

\* Everything but the UI.
engineVars == <<ctx, ctxQueue, isInitialized, currentAmp, state, nodes, starts, decodes,
                loads, initPc, calls, lastCall, lastSettle, lastPreGain, curveOf, ampIssue,
                driveToggle>>

(***************************************************************************)
(* Bounds of the model.                                                    *)
(***************************************************************************)
MaxCalls == 4
MaxPending == 2
MaxKnob == 10
n_samples == 8
MaxHalfRate == 4
frequencyBinCount == 2

(***************************************************************************)
(* Inputs.                                                                 *)
(***************************************************************************)
Models == {"fender", "vox", "marshall"}
ParamNames == {"gate", "compressor", "preGain", "voice", "bass", "mid", "treble",
               "presence", "master"}
UnknownName == "reverb"
SwitchNames == {"bright", "drive"}

\* The values the model passes to setParam, per parameter; 12 for master and
\* preGain is outside the documented domain [0,10].
ParamValues(param) ==
    CASE param = "gate"       -> {-80}
      [] param = "compressor" -> {1}
      [] param = "preGain"    -> {1, 5, 12}
      [] param = "voice"      -> {-5}
      [] param = "master"     -> {10, 12}
      [] OTHER                -> {4}

IRBytes == {"wav", "garbage"}
Decodes(bytes) == bytes = "wav"

NoNodes == << >>
NoCall == [op |-> "none", name |-> "", value |-> 0, ret |-> "undefined", threw |-> FALSE]
NoIssue == [model |-> "", visible |-> FALSE, paramAfter |-> FALSE]
NoSettle == [op |-> "none", ret |-> "undefined"]
NotSet == 0 - 1
NoToggle == [phase |-> "none", curve |-> [regime |-> "", amount |-> 0], drive |-> FALSE]

\* The knobs of the page the model moves, by their data-param, with their range.
Knobs == {"gate", "preGain", "master"}
knobMin(knob) == IF knob = "gate" THEN -80 ELSE 0
knobMax(knob) == IF knob = "gate" THEN 0 ELSE 10

\* The checkboxes of the page, by their id without its 'sw-'.
Switches == SwitchNames \cup {"gate"}

\* The UIController after its constructor and init(), with the page as it loads:
\* power indicator off, the option of the engine's default amp selected, the
\* cabinet display naming the default cab, each knob at the value the engine
\* creates its stage with, the gate switch on and the others as this.state has
\* them, nothing dragged, the meter empty. `threw` tells whether the handler that
\* ran last ended in an uncaught error.
UIConstructed ==
    [powerActive |-> FALSE,
     micro       |-> "none",
     starters    |-> << >>,
     selectedAmp |-> "fender",
     cabDisplay  |-> [kind |-> "default", of |-> "fender"],
     threw       |-> FALSE,
     switches    |-> [sw \in Switches |-> sw = "gate"],
     isDragging  |-> FALSE,
     currentKnob |-> "null",
     startValue  |-> 0,
     knobValue   |-> [k \in Knobs |-> CASE k = "gate" -> -60 [] k = "preGain" -> 3 [] OTHER -> 5],
     vuOut       |-> 0]

Abs(x) == IF x < 0 THEN -x ELSE x
Max(a, b) == IF a >= b THEN a ELSE b
Min(a, b) == IF a <= b THEN a ELSE b

(***************************************************************************)
(* The modular engine (src/unnamed/part_000).                              *)
(***************************************************************************)

\* makeDistortionCurve(amount): the table is a function of the amount alone, one
\* formula below amount 1 and another from 1 on; the curve is kept as that pair.
makeDistortionCurve(amount200) ==
    [regime |-> IF amount200 < 200 THEN "linear" ELSE "tanh", amount |-> amount200]

\* The table makeDistortionCurve fills, with the n_samples of the model: entry i
\* sits at x = i * 2 / n_samples - 1, kept as x * n_samples. In the linear regime
\* y is x * (1 - 0.1 * amount), kept times 2000 * n_samples. In the tanh regime y is
\* tanh(k * x) / tanh(k) with k = amount * 0.5, kept as k * x times 400 * n_samples:
\* tanh is odd and strictly increasing, so two entries are equal, or opposite,
\* exactly when these numbers are.
curveTable(curve) ==
    [i \in 0..(n_samples - 1) |->
        [x |-> 2 * i - n_samples,
         y |-> IF curve.regime = "linear"
               THEN (2 * i - n_samples) * (2000 - curve.amount)
               ELSE curve.amount * (2 * i - n_samples)]]

\* The number that stands for y = 1 in curveTable(curve).
curveOne(curve) ==
    IF curve.regime = "linear" THEN 2000 * n_samples ELSE curve.amount * n_samples

\* A gainFactor that folds around the threshold instead of stopping at 0.
gainFactor80Folded(gain10) == Abs(gain10 - 20)

\* baseAmount of updateDistortion, doubled (0.5 is 1).
baseAmount2(amp, drive) ==
    CASE amp = "fender"   -> IF drive THEN 16 ELSE 1
      [] amp = "vox"      -> IF drive THEN 30 ELSE 4
      [] amp = "marshall" -> IF drive THEN 50 ELSE 6
      [] OTHER            -> 0

\* gainFactor = max(0, (currentGain - 2) / 8), times 80 (currentGain in tenths).
gainFactor80(gain10) == Max(0, gain10 - 20)

\* finalAmount = baseAmount * (0.2 + gainFactor * 0.8), times 200.
finalAmount200(gain10, amp, drive) == baseAmount2(amp, drive) * (20 + gainFactor80(gain10))

\* updateDistortion(): reads nodes.preGain, writes nodes.distortion.curve.
updateDistortion(n, amp, st) ==
    [n EXCEPT !.curve = makeDistortionCurve(finalAmount200(n.preGain, amp, st.drive))]

\* setInternalCab(model): a fresh synthetic IR with the model's coloration.
syntheticIR(model) == [kind |-> "synthetic", tag |-> model]

\* The buffer decodeAudioData yields for uploaded bytes.
decodedIR(bytes) == [kind |-> "custom", tag |-> bytes]

setInternalCab(n, model) == [n EXCEPT !.cab = syntheticIR(model)]

\* The stage graph connected by init, source -> gate excluded.
StageOrder == <<"gate", "bright", "compressor", "preGain", "voice", "distortion", "bass",
                "mid", "treble", "presence", "cab", "master", "analyser", "destination">>

Chain == {<<StageOrder[i], StageOrder[i + 1]>> : i \in 1..(Len(StageOrder) - 1)}

\* this.nodes as init leaves them, before its closing setAmpModel('fender').
CreatedNodes ==
    [source |-> "null",
     gateThreshold |-> -600,
     brightGain |-> 0,
     compRatio |-> 10,
     compThreshold |-> -300,
     preGain |-> 30,
     voiceGain |-> 0,
     voiceQ |-> 10,
     bass |-> 0,
     mid |-> 0,
     treble |-> 0,
     presence |-> 0,
     curve |-> makeDistortionCurve(0),
     cab |-> syntheticIR("fender"),
     master |-> 10,
     connections |-> Chain]

\* setAmpModel(model) on created nodes: updateDistortion, then setInternalCab.
ampModelNodes(n, model, st) == setInternalCab(updateDistortion(n, model, st), model)

\* The nodes init returns with.
InitNodes == ampModelNodes(CreatedNodes, "fender", state)

\* A preGain case that forgets updateDistortion().
preGainNodesNoRecompute(n, value, amp, st) ==
    [n EXCEPT !.preGain = 10 * value * (IF st.drive THEN 2 ELSE 1)]

\* setParam's preGain case: the value times 2 with drive on, then updateDistortion().
preGainNodes(n, value, amp, st) ==
    updateDistortion([n EXCEPT !.preGain = 10 * value * (IF st.drive THEN 2 ELSE 1)], amp, st)

\* A switch whose unknown names fall through to the master case.
paramNodesFallThrough(n, param, value, amp, st) ==
    CASE param = "gate"       -> [n EXCEPT !.gateThreshold = 10 * value]
      [] param = "compressor" -> [n EXCEPT !.compRatio = 10 + 110 * value,
                                           !.compThreshold = -300 - 200 * value]
      [] param = "preGain"    -> preGainNodes(n, value, amp, st)
      [] param = "voice"      -> [n EXCEPT !.voiceGain = 30 * value,
                                           !.voiceQ = 15 + 2 * Abs(value)]
      [] param = "bass"       -> [n EXCEPT !.bass = 10 * value]
      [] param = "mid"        -> [n EXCEPT !.mid = 10 * value]
      [] param = "treble"     -> [n EXCEPT !.treble = 10 * value]
      [] param = "presence"   -> [n EXCEPT !.presence = 10 * value]
      [] OTHER                -> [n EXCEPT !.master = 2 * value]

\* setParam's switch (param, value), on created nodes.
paramNodes(n, param, value, amp, st) ==
    CASE param = "gate"       -> [n EXCEPT !.gateThreshold = 10 * value]
      [] param = "compressor" -> [n EXCEPT !.compRatio = 10 + 110 * value,
                                           !.compThreshold = -300 - 200 * value]
      [] param = "preGain"    -> preGainNodes(n, value, amp, st)
      [] param = "voice"      -> [n EXCEPT !.voiceGain = 30 * value,
                                           !.voiceQ = 15 + 2 * Abs(value)]
      [] param = "bass"       -> [n EXCEPT !.bass = 10 * value]
      [] param = "mid"        -> [n EXCEPT !.mid = 10 * value]
      [] param = "treble"     -> [n EXCEPT !.treble = 10 * value]
      [] param = "presence"   -> [n EXCEPT !.presence = 10 * value]
      [] param = "master"     -> [n EXCEPT !.master = 2 * value]
      [] OTHER                -> n

\* driveToggle after the call: it follows toggleSwitch('drive', true) and, right
\* after it, toggleSwitch('drive', false); any other call ends the pair.
DriveToggled(op, name, value) ==
    IF op = "toggleSwitch" /\ name = "drive" /\ isInitialized
    THEN IF value = 1
         THEN [phase |-> "on", curve |-> nodes.curve, drive |-> state.drive]
         ELSE IF driveToggle.phase = "on"
              THEN [driveToggle EXCEPT !.phase = "onoff"]
              ELSE NoToggle
    ELSE NoToggle

Called(op, name, value, ret, threw) ==
    /\ calls < MaxCalls
    /\ calls' = calls + 1
    /\ lastCall' = [op |-> op, name |-> name, value |-> value, ret |-> ret, threw |-> threw]
    /\ driveToggle' = DriveToggled(op, name, value)

\* The amp a model identifier stands for: the bundled engine's identifiers carry a
\* suffix, and its init passes the bare 'fender'.
family(model) ==
    CASE model \in {"fender", "fender_clean"}     -> "fender"
      [] model \in {"vox", "vox_chime"}           -> "vox"
      [] model \in {"marshall", "marshall_drive"} -> "marshall"
      [] OTHER                                    -> model

\* The amp model a cabinet buffer belongs to ("" for an uploaded IR or no buffer).
cabModel(cab) == IF cab.kind \in {"synthetic", "file"} THEN family(cab.tag) ELSE ""

\* ampIssue once the curve of `of` and the cabinet `cab` are in place.
Seen(issue, of, cab) ==
    [issue EXCEPT !.visible = @ \/ (issue.model # "" /\ family(of) = family(issue.model)
                                                     /\ cabModel(cab) = family(issue.model))]

Init ==
    /\ ctx = "null"
    /\ ctxQueue = << >>
    /\ isInitialized = FALSE
    /\ currentAmp = "fender"
    /\ state = [bright |-> FALSE, drive |-> FALSE]
    /\ nodes = NoNodes
    /\ starts = << >>
    /\ decodes = << >>
    /\ loads = << >>
    /\ initPc = "idle"
    /\ calls = 0
    /\ lastCall = NoCall
    /\ lastSettle = NoSettle
    /\ lastPreGain = NotSet
    /\ curveOf = ""
    /\ ampIssue = NoIssue
    /\ driveToggle = NoToggle
    /\ ui = UIConstructed

\* An init() without its isInitialized guard.
initAlways ==
    /\ Called("init", "", 0, "undefined", FALSE)
    /\ ctx' = "suspended"
    /\ isInitialized' = TRUE
    /\ currentAmp' = "fender"
    /\ nodes' = InitNodes
    /\ curveOf' = "fender"
    /\ UNCHANGED <<ctxQueue, state, starts, decodes, loads, initPc, lastSettle,
                   lastPreGain, ampIssue>>

\* init(): returns at once when initialized; otherwise creates the context and the
\* stages, connects them, sets isInitialized and calls setAmpModel('fender').
init ==
    /\ Called("init", "", 0, "undefined", FALSE)
    /\ IF isInitialized
       THEN UNCHANGED <<ctx, isInitialized, currentAmp, nodes, curveOf>>
       ELSE /\ ctx' = "suspended"
            /\ isInitialized' = TRUE
            /\ currentAmp' = "fender"
            /\ nodes' = InitNodes
            /\ curveOf' = "fender"
    /\ UNCHANGED <<ctxQueue, state, starts, decodes, loads, initPc, lastSettle,
                   lastPreGain, ampIssue>>

\* A new AudioContext reports the state 'suspended'; from then on the state changes
\* when the platform applies a resume() or suspend() the engine requested.
\* The platform applies the oldest pending resume()/suspend() and resolves its
\* promise; a startInput call awaiting its resume() moves on to getUserMedia.
ctxApply ==
    /\ ctxQueue # << >>
    /\ LET req == Head(ctxQueue) IN
        /\ ctx' = IF req.op = "resume" THEN "running" ELSE "suspended"
        /\ starts' = IF req.by = "startInput"
                      THEN LET i == CHOOSE k \in 1..Len(starts) :
                                        /\ starts[k] = "resume"
                                        /\ \A j \in 1..(k - 1) : starts[j] # "resume"
                           IN [starts EXCEPT ![i] = "getUserMedia"]
                      ELSE starts
    /\ ctxQueue' = Tail(ctxQueue)
    /\ UNCHANGED <<isInitialized, currentAmp, state, nodes, decodes, loads, initPc,
                   calls, lastCall, lastSettle, lastPreGain, curveOf, ampIssue,
                   driveToggle>>

\* startInput(), up to its await of ctx.resume(): init first when there is no
\* context.
startInput ==
    /\ Len(starts) < MaxPending
    /\ Len(ctxQueue) < MaxPending
    /\ Called("startInput", "", 0, "promise", FALSE)
    /\ IF ctx = "null"
       THEN /\ ctx' = "suspended"
            /\ isInitialized' = TRUE
            /\ currentAmp' = "fender"
            /\ nodes' = InitNodes
            /\ curveOf' = "fender"
       ELSE UNCHANGED <<ctx, isInitialized, currentAmp, nodes, curveOf>>
    /\ ctxQueue' = Append(ctxQueue, [op |-> "resume", by |-> "startInput", ret |-> FALSE])
    /\ starts' = Append(starts, "resume")
    /\ UNCHANGED <<state, decodes, loads, initPc, lastSettle, lastPreGain, ampIssue>>

RemoveAt(seq, i) == SubSeq(seq, 1, i - 1) \o SubSeq(seq, i + 1, Len(seq))

\* A startInput that wires the new source past the gate.
attachSourcePastGate(n) ==
    [n EXCEPT !.source = "stream",
              !.connections = (@ \ {<<"gate", "bright">>}) \cup {<<"source", "bright">>}]

\* startInput with a stream: the old source, if any, is disconnected and the new
\* one connected to the gate.
attachSource(n) ==
    [n EXCEPT !.source = "stream", !.connections = @ \cup {<<"source", "gate">>}]

\* startInput(), from getUserMedia's answer on: with a stream the old source is
\* disconnected, the new one connected to the gate, and the call returns true;
\* without one the catch returns false.
getUserMediaSettleAt(i, granted) ==
        /\ starts[i] = "getUserMedia"
        /\ starts' = RemoveAt(starts, i)
        /\ IF granted
           THEN /\ nodes' = attachSource(nodes)
                /\ lastSettle' = [op |-> "startInput", ret |-> "true"]
           ELSE /\ nodes' = nodes
                /\ lastSettle' = [op |-> "startInput", ret |-> "false"]
        /\ UNCHANGED <<ctx, ctxQueue, isInitialized, currentAmp, state, decodes, loads,
                       initPc, calls, lastCall, lastPreGain, curveOf, ampIssue,
                       driveToggle>>

\* getUserMedia answers one of the startInput calls waiting for it, either way.
getUserMediaSettle ==
    \E i \in 1..Len(starts), granted \in BOOLEAN : getUserMediaSettleAt(i, granted)

\* A togglePower() that answers true whenever there is a context.
togglePowerReturnAlways == ctx # "null"

\* What togglePower() returns.
togglePowerReturn == ctx = "suspended"

\* togglePower(): false without a context; resume() and true when the context is
\* suspended; suspend() and false when it is running.
togglePower ==
    /\ Called("togglePower", "", 0, IF togglePowerReturn THEN "true" ELSE "false", FALSE)
    /\ IF ctx = "null"
       THEN ctxQueue' = ctxQueue
       ELSE /\ Len(ctxQueue) < MaxPending
            /\ ctxQueue' = Append(ctxQueue,
                                  [op |-> IF ctx = "suspended" THEN "resume" ELSE "suspend",
                                   by |-> "togglePower",
                                   ret |-> togglePowerReturn])
    /\ UNCHANGED <<ctx, isInitialized, currentAmp, state, nodes, starts, decodes, loads,
                   initPc, lastSettle, lastPreGain, curveOf, ampIssue>>

\* One call setParam(param, value).
setParamCall(param, value) ==
    /\ Called("setParam", param, value, "undefined", FALSE)
    /\ IF ~isInitialized
       THEN UNCHANGED <<nodes, lastPreGain, curveOf, ampIssue>>
       ELSE /\ nodes' = paramNodes(nodes, param, value, currentAmp, state)
            /\ lastPreGain' = IF param = "preGain" THEN value ELSE lastPreGain
            /\ curveOf' = IF param = "preGain" THEN currentAmp ELSE curveOf
            /\ ampIssue' = IF ampIssue.model # "" /\ param \in ParamNames
                            THEN [ampIssue EXCEPT !.paramAfter = TRUE]
                            ELSE ampIssue
    /\ UNCHANGED <<ctx, ctxQueue, isInitialized, currentAmp, state, starts, decodes,
                   loads, initPc, lastSettle>>

\* setParam(param, value).
setParam ==
    \E param \in ParamNames \cup {UnknownName} : \E value \in ParamValues(param) :
        setParamCall(param, value)

\* setParam('preGain', value) with the GAIN knob anywhere in its range, in whole
\* steps.
setPreGainKnob == \E value \in 0..MaxKnob : setParamCall("preGain", value)

\* A toggleSwitch whose drive branch only ever switches the flag on.
switchStateSticky(st, switchName, isActive) ==
    IF switchName = "drive" THEN [st EXCEPT !.drive = TRUE] ELSE st

\* toggleSwitch's effect on this.state.
switchState(st, switchName, isActive) ==
    IF switchName = "drive" THEN [st EXCEPT !.drive = isActive] ELSE st

\* toggleSwitch's effect on this.nodes; the drive branch computes currentBase and
\* drops it, so the pre-gain stage is left as it is.
switchNodes(n, switchName, isActive, amp, st) ==
    CASE switchName = "bright" -> [n EXCEPT !.brightGain = IF isActive THEN 60 ELSE 0]
      [] switchName = "drive"  -> updateDistortion(n, amp, switchState(st, switchName, isActive))
      [] OTHER                 -> n

\* One call toggleSwitch(switchName, isActive).
toggleSwitchCall(switchName, isActive) ==
    /\ Called("toggleSwitch", switchName, IF isActive THEN 1 ELSE 0, "undefined", FALSE)
    /\ IF ~isInitialized
       THEN UNCHANGED <<nodes, state, curveOf>>
       ELSE /\ state' = switchState(state, switchName, isActive)
            /\ nodes' = switchNodes(nodes, switchName, isActive, currentAmp, state)
            /\ curveOf' = IF switchName = "drive" THEN currentAmp ELSE curveOf
    /\ UNCHANGED <<ctx, ctxQueue, isInitialized, currentAmp, starts, decodes, loads,
                   initPc, lastSettle, lastPreGain, ampIssue>>

\* toggleSwitch(switchName, isActive).
toggleSwitch ==
    \E switchName \in SwitchNames \cup {UnknownName}, isActive \in BOOLEAN :
        toggleSwitchCall(switchName, isActive)

\* One call setAmpModel(model): currentAmp is assigned first; without nodes
\* updateDistortion then throws a TypeError reading this.nodes.preGain.gain.
setAmpModelCall(model) ==
    /\ Called("setAmpModel", model, 0, "undefined", nodes = NoNodes)
    /\ currentAmp' = model
    /\ nodes' = IF nodes = NoNodes THEN nodes ELSE ampModelNodes(nodes, model, state)
    /\ curveOf' = IF nodes = NoNodes THEN curveOf ELSE model
    /\ ampIssue' = IF isInitialized
                    THEN Seen([model |-> model, visible |-> FALSE, paramAfter |-> FALSE],
                              curveOf', nodes'.cab)
                    ELSE NoIssue
    /\ UNCHANGED <<ctx, ctxQueue, isInitialized, state, starts, decodes, loads,
                   initPc, lastSettle, lastPreGain>>

\* setAmpModel(model).
setAmpModel == \E model \in Models : setAmpModelCall(model)

\* One call loadIR(arrayBuffer), up to its await of decodeAudioData: without a
\* context it returns undefined.
loadIRCall(bytes) ==
    /\ IF ctx = "null"
       THEN /\ Called("loadIR", bytes, 0, "undefined", FALSE)
            /\ decodes' = decodes
       ELSE /\ Len(decodes) < MaxPending
            /\ Called("loadIR", bytes, 0, "promise", FALSE)
            /\ decodes' = Append(decodes, bytes)
    /\ UNCHANGED <<ctx, ctxQueue, isInitialized, currentAmp, state, nodes, starts,
                   loads, initPc, lastSettle, lastPreGain, curveOf, ampIssue>>

\* loadIR(arrayBuffer).
loadIR == \E bytes \in IRBytes : loadIRCall(bytes)

\* A loadIR whose catch unbinds the cabinet buffer.
loadIRNodesUnbind(n, bytes) ==
    IF Decodes(bytes) THEN [n EXCEPT !.cab = decodedIR(bytes)]
                      ELSE [n EXCEPT !.cab = [kind |-> "null", tag |-> ""]]

\* The cabinet stage after decodeAudioData settles.
loadIRNodes(n, bytes) ==
    IF Decodes(bytes) THEN [n EXCEPT !.cab = decodedIR(bytes)] ELSE n

\* loadIR(arrayBuffer), from decodeAudioData's answer on: the decoded buffer is
\* bound and true returned, or the catch returns false.
decodeSettleAt(i) ==
    /\ decodes' = RemoveAt(decodes, i)
    /\ nodes' = loadIRNodes(nodes, decodes[i])
    /\ lastSettle' = [op |-> "loadIR",
                      ret |-> IF Decodes(decodes[i]) THEN "true" ELSE "false"]
    /\ UNCHANGED <<ctx, ctxQueue, isInitialized, currentAmp, state, starts, loads,
                   initPc, calls, lastCall, lastPreGain, curveOf, ampIssue,
                   driveToggle>>

\* decodeAudioData answers one of the pending loadIR calls.
decodeSettle == \E i \in 1..Len(decodes) : decodeSettleAt(i)

Next ==
    \/ init /\ UNCHANGED ui
    \/ startInput /\ UNCHANGED ui
    \/ ctxApply /\ UNCHANGED ui
    \/ getUserMediaSettle /\ UNCHANGED ui
    \/ togglePower /\ UNCHANGED ui
    \/ setParam /\ UNCHANGED ui
    \/ toggleSwitch /\ UNCHANGED ui
    \/ setAmpModel /\ UNCHANGED ui
    \/ loadIR /\ UNCHANGED ui
    \/ decodeSettle /\ UNCHANGED ui

Spec == Init /\ [][Next]_vars

\* The calls that bear on the distortion amount and the curve, the GAIN knob over
\* its whole range.
NextTone ==
    \/ init /\ UNCHANGED ui
    \/ setPreGainKnob /\ UNCHANGED ui
    \/ toggleSwitch /\ UNCHANGED ui
    \/ setAmpModel /\ UNCHANGED ui

SpecTone == Init /\ [][NextTone]_vars

(***************************************************************************)
(* The synthetic cabinet IR in full. Spec keeps of a synthetic buffer only *)
(* the model it was generated for; here setInternalCab's loop is run       *)
(* sample by sample, on a context whose sample rate is a few samples per   *)
(* second. The sample rates are even, as those of audio hardware are       *)
(* (44100, 48000, 96000; init asks for 48000), so half a second is a whole *)
(* number of samples.                                                      *)
(***************************************************************************)
SampleRates == {2 * k : k \in 1..MaxHalfRate}

\* What Math.random() * 2 - 1 yields, in halves: -1 and 0.5.
Randoms == {-2, 1}

\* The draws of one run of the loop, one per sample.
Draws(length) == [1..length -> Randoms]

RECURSIVE Pow(_, _)
Pow(b, e) == IF e = 0 THEN 1 ELSE b * Pow(b, e - 1)

\* val before the model's filter: (Math.random() * 2 - 1) * (1 - i / length)^4.
\* A sample s is kept as s * 2 * length^4 * 10 * 3^max(0, length - 3), which is whole
\* for every sample the loop produces: halves from the draw, length^4 from the
\* decay, tenths from the 0.9 and 0.8, and one third per averaged sample.
decayed(length, draw, i) == draw * Pow(length - i, 4) * 10 * Pow(3, Max(0, length - 3))

\* val after the model's filter; left holds the samples before i.
filtered(model, length, draw, i, left) ==
    LET val == decayed(length, draw, i) IN
    CASE model = "fender"   -> IF i % 2 = 0 THEN (val * 9) \div 10 ELSE val
      [] model = "marshall" -> IF i > 2 THEN (val + left[i] + left[i - 1]) \div 3 ELSE val
      [] model = "vox"      -> (val * 8) \div 10
      [] OTHER              -> val

\* The channel data after the first `upto` rounds of the loop; sample i of the
\* source is element i + 1 here. Each round writes the same val to both channels.
RECURSIVE channels(_, _, _, _)
channels(model, length, rnd, upto) ==
    IF upto = 0
    THEN [left |-> << >>, right |-> << >>]
    ELSE LET before == channels(model, length, rnd, upto - 1)
             val == filtered(model, length, rnd[upto], upto - 1, before.left)
         IN [left |-> Append(before.left, val), right |-> Append(before.right, val)]

\* A loop that writes the unfiltered val to the right channel.
impulseRightRaw(model, rate, rnd) ==
    LET length == rate \div 2
        data == channels(model, length, rnd, length)
    IN [kind |-> "synthetic", tag |-> model, numberOfChannels |-> 2, sampleRate |-> rate,
        length |-> length, left |-> data.left,
        right |-> [i \in 1..length |-> decayed(length, rnd[i], i - 1)]]

\* setInternalCab(model): createBuffer(2, rate * 0.5, rate), filled by the loop.
impulse(model, rate, rnd) ==
    LET length == rate \div 2
        data == channels(model, length, rnd, length)
    IN [kind |-> "synthetic", tag |-> model, numberOfChannels |-> 2, sampleRate |-> rate,
        length |-> length, left |-> data.left, right |-> data.right]

\* init(), the context's sample rate and the draws of its closing
\* setAmpModel('fender') -> setInternalCab('fender') chosen.
cabInit ==
    /\ Called("init", "", 0, "undefined", FALSE)
    /\ IF isInitialized
       THEN UNCHANGED <<ctx, isInitialized, currentAmp, nodes, curveOf>>
       ELSE \E rate \in SampleRates : \E rnd \in Draws(rate \div 2) :
                /\ ctx' = "suspended"
                /\ isInitialized' = TRUE
                /\ currentAmp' = "fender"
                /\ nodes' = [InitNodes EXCEPT !.cab = impulse("fender", rate, rnd)]
                /\ curveOf' = "fender"
    /\ UNCHANGED <<ctxQueue, state, starts, decodes, loads, initPc, lastSettle,
                   lastPreGain, ampIssue>>

\* setAmpModel(model) on an initialized engine, the draws of its setInternalCab
\* chosen; the context's sample rate is the one of the buffer in place.
cabSetAmpModel ==
    /\ isInitialized
    /\ \E model \in Models : \E rnd \in Draws(nodes.cab.sampleRate \div 2) :
        /\ Called("setAmpModel", model, 0, "undefined", FALSE)
        /\ currentAmp' = model
        /\ nodes' = [updateDistortion(nodes, model, state)
                         EXCEPT !.cab = impulse(model, nodes.cab.sampleRate, rnd)]
        /\ curveOf' = model
        /\ ampIssue' = Seen([model |-> model, visible |-> FALSE, paramAfter |-> FALSE],
                            curveOf', nodes'.cab)
        /\ UNCHANGED <<ctx, ctxQueue, isInitialized, state, starts, decodes, loads,
                       initPc, lastSettle, lastPreGain>>

NextCab ==
    \/ cabInit /\ UNCHANGED ui
    \/ cabSetAmpModel /\ UNCHANGED ui

SpecCab == Init /\ [][NextCab]_vars

(***************************************************************************)
(* The UIController (src/js/ui-controller.js) on the modular engine. A     *)
(* handler runs up to its first await; what follows an await whose promise *)
(* is already settled is a microtask, which runs before anything else      *)
(* does: ui.micro names it, and every other step waits for it.             *)
(***************************************************************************)
NoMicro == ui.micro = "none"

\* Start button: the welcome modal is dismissed and init() awaited.
startClick ==
    /\ NoMicro
    /\ init
    /\ ui' = [ui EXCEPT !.micro = "startInput", !.threw = FALSE]

\* Start button, after init(): startInput() is called and not awaited; its then()
\* callback is kept for when it resolves.
startClickStartInput ==
    /\ ui.micro = "startInput"
    /\ startInput
    /\ ui' = [ui EXCEPT !.micro = "none", !.starters = Append(@, "start")]

\* The then() callback of the start button's startInput(): togglePower(), and the
\* power indicator is switched on.
startClickThen ==
    /\ ui.micro = "startThen"
    /\ togglePower
    /\ ui' = [ui EXCEPT !.micro = "none", !.powerActive = TRUE]

\* The continuation of the power button after `await this.audio.togglePower()`.
powerMicro(ret) == IF ret = "true" THEN "powerOn" ELSE "powerOff"

\* Power button: init() is awaited when the engine is not initialized; otherwise
\* togglePower() is called at once and its value awaited.
powerClick ==
    /\ NoMicro
    /\ IF ~isInitialized
       THEN init /\ ui' = [ui EXCEPT !.micro = "powerToggle", !.threw = FALSE]
       ELSE togglePower /\ ui' = [ui EXCEPT !.micro = powerMicro(lastCall'.ret),
                                            !.threw = FALSE]

\* Power button, after its init(): togglePower().
powerClickToggle ==
    /\ ui.micro = "powerToggle"
    /\ togglePower
    /\ ui' = [ui EXCEPT !.micro = powerMicro(lastCall'.ret)]

\* Power button, togglePower() returned true: the indicator is switched on, and
\* startInput() called when there is no input source.
powerClickOn ==
    /\ ui.micro = "powerOn"
    /\ IF nodes.source = "null"
       THEN /\ startInput
            /\ ui' = [ui EXCEPT !.micro = "none", !.powerActive = TRUE,
                                !.starters = Append(@, "power")]
       ELSE /\ UNCHANGED engineVars
            /\ ui' = [ui EXCEPT !.micro = "none", !.powerActive = TRUE]

\* Power button, togglePower() returned false: the indicator is switched off.
powerClickOff ==
    /\ ui.micro = "powerOff"
    /\ ui' = [ui EXCEPT !.micro = "none", !.powerActive = FALSE]
    /\ UNCHANGED engineVars

\* The platform applies a pending resume()/suspend().
uiCtxApply == NoMicro /\ ctxApply /\ UNCHANGED ui

\* A startInput() call resolves; the start button's then() callback is next when
\* the call was its own.
uiGetUserMediaSettle ==
    \E i \in 1..Len(starts), granted \in BOOLEAN :
        /\ NoMicro
        /\ getUserMediaSettleAt(i, granted)
        /\ ui' = [ui EXCEPT !.starters = RemoveAt(@, i),
                            !.micro = IF ui.starters[i] = "start" THEN "startThen" ELSE "none"]

\* The analyser's byte data the model lets a refresh tick read.
Bytes == {0, 1, 31, 32, 33, 128, 255}

RECURSIVE SumTo(_, _)
SumTo(data, n) == IF n = 0 THEN 0 ELSE data[n] + SumTo(data, n - 1)

\* A meter without its Math.min.
meterHeightUncapped(data) == 100 * SumTo(data, Len(data))

\* height = Math.min(100, (average / 32) * 100), average = sum / length; kept times
\* 32 * length.
meterHeight(data) == Min(100 * 32 * Len(data), 100 * SumTo(data, Len(data)))

\* One requestAnimationFrame tick of the visualizer: with an initialized engine the
\* analyser's data is read and the meter's width set.
draw ==
    /\ NoMicro
    /\ \E data \in [1..frequencyBinCount -> Bytes] :
           ui' = [ui EXCEPT !.vuOut = IF isInitialized THEN meterHeight(data) ELSE @]
    /\ UNCHANGED engineVars

NextPower ==
    \/ startClick
    \/ startClickStartInput
    \/ startClickThen
    \/ powerClick
    \/ powerClickToggle
    \/ powerClickOn
    \/ powerClickOff
    \/ uiCtxApply
    \/ uiGetUserMediaSettle
    \/ draw

SpecPower == Init /\ [][NextPower]_vars

(***************************************************************************)
(* The panel: amp selector, switches, IR upload, knobs.                    *)
(***************************************************************************)

\* Amp option click on an option that is not the selected one: the option is
\* marked selected, then setAmpModel(model); when that throws the handler ends
\* there, otherwise the cabinet display follows the model if it shows a default
\* cab.
ampOptionClick ==
    \E model \in Models :
        /\ NoMicro
        /\ ui.selectedAmp # model
        /\ setAmpModelCall(model)
        /\ ui' = [ui EXCEPT !.selectedAmp = model,
                            !.threw = lastCall'.threw,
                            !.cabDisplay = IF ~lastCall'.threw /\ @.kind = "default"
                                           THEN [kind |-> "default", of |-> model]
                                           ELSE @]

\* Switch change. The gate switch calls this.audio.setGateThreshold, which the
\* engine does not define: a TypeError, and nothing reaches the engine. The
\* other switches call toggleSwitch(param, checked).
switchChange ==
    \E sw \in Switches :
        LET isActive == ~ui.switches[sw] IN
        /\ NoMicro
        /\ IF sw = "gate"
           THEN /\ UNCHANGED engineVars
                /\ ui' = [ui EXCEPT !.switches[sw] = isActive, !.threw = TRUE]
           ELSE /\ toggleSwitchCall(sw, isActive)
                /\ ui' = [ui EXCEPT !.switches[sw] = isActive, !.threw = FALSE]

\* IR upload, from the FileReader's onload: loadIR(arrayBuffer) is awaited.
irUploadOnload ==
    \E bytes \in IRBytes :
        /\ NoMicro
        /\ loadIRCall(bytes)
        /\ ui' = [ui EXCEPT !.threw = FALSE]

\* IR upload, after its await: the display names the file when loadIR returned
\* true.
irUploadSettle ==
    \E i \in 1..Len(decodes) :
        /\ NoMicro
        /\ decodeSettleAt(i)
        /\ ui' = IF Decodes(decodes[i])
                 THEN [ui EXCEPT !.cabDisplay = [kind |-> "custom", of |-> decodes[i]]]
                 ELSE ui

\* startDrag(e, knob).
startDrag ==
    \E knob \in Knobs :
        /\ NoMicro
        /\ ui' = [ui EXCEPT !.isDragging = TRUE, !.currentKnob = knob,
                            !.startValue = ui.knobValue[knob], !.threw = FALSE]
        /\ UNCHANGED engineVars

\* The mouse movements since startDrag the model lets handleDrag see, in pixels:
\* multiples of 20, so that deltaY * step is whole for ranges of 10 and 80.
DeltaYs == {-400, -20, 20, 100}

\* A handleDrag without its clamp.
dragValueUnclamped(startValue, deltaY, min, max) ==
    startValue + (deltaY * (max - min)) \div 200

\* newValue of handleDrag: startValue + deltaY * (range / 200), clamped to
\* [min, max].
dragValue(startValue, deltaY, min, max) ==
    Min(Max(startValue + (deltaY * (max - min)) \div 200, min), max)

\* handleDrag(e) while a knob is dragged: the knob's value is set and passed to
\* setParam under the knob's data-param.
handleDrag ==
    \E deltaY \in DeltaYs :
        LET knob == ui.currentKnob
            newValue == dragValue(ui.startValue, deltaY, knobMin(knob), knobMax(knob))
        IN /\ NoMicro
           /\ ui.isDragging /\ ui.currentKnob # "null"
           /\ setParamCall(knob, newValue)
           /\ ui' = [ui EXCEPT !.knobValue[knob] = newValue, !.threw = FALSE]

\* endDrag().
endDrag ==
    /\ NoMicro
    /\ ui' = [ui EXCEPT !.isDragging = FALSE, !.currentKnob = "null", !.threw = FALSE]
    /\ UNCHANGED engineVars

NextPanel ==
    \/ startClick
    \/ startClickStartInput
    \/ startClickThen
    \/ uiCtxApply
    \/ uiGetUserMediaSettle
    \/ ampOptionClick
    \/ switchChange
    \/ irUploadOnload
    \/ irUploadSettle

SpecPanel == Init /\ [][NextPanel]_vars

\* The start button and the knobs.
NextKnob ==
    \/ startClick
    \/ startClickStartInput
    \/ startClickThen
    \/ uiCtxApply
    \/ uiGetUserMediaSettle
    \/ startDrag
    \/ handleDrag
    \/ endDrag

SpecKnob == Init /\ [][NextKnob]_vars

(***************************************************************************)
(* The bundled engine (src/unnamed/part_002). togglePower, loadIR and the   *)
(* platform's steps are the same code as in the modular engine.            *)
(***************************************************************************)
BundleModels == {"fender_clean", "vox_chime", "marshall_drive"}

\* makeDistortionCurve(amount) of the bundled engine: one formula for every amount.
B_makeDistortionCurve(amount200) == [regime |-> "rational", amount |-> amount200]

\* baseAmount of the bundled updateDistortion, doubled: 10, 60 for marshall*, 35 for
\* vox*, times 2.5 with drive on.
B_baseAmount2(amp, drive) ==
    LET base == CASE family(amp) = "marshall" -> 60
                  [] family(amp) = "vox"      -> 35
                  [] OTHER                    -> 10
    IN IF drive THEN 5 * base ELSE 2 * base

\* updateDistortion() of the bundled engine: the pre-gain plays no part.
B_updateDistortion(n, amp, st) ==
    [n EXCEPT !.curve = B_makeDistortionCurve(100 * B_baseAmount2(amp, st.drive))]

\* setInternalCab(model): the IR file of the model, fender's for any other name.
irFile(model) ==
    CASE model = "fender_clean"   -> "fender_deluxe_big.wav"
      [] model = "vox_chime"      -> "vox_ac30_blue.wav"
      [] model = "marshall_drive" -> "marshall_412_v30.wav"
      [] OTHER                    -> "fender_deluxe_big.wav"

\* The model an IR file was recorded for.
fileModel(file) ==
    CASE file = "vox_ac30_blue.wav"    -> "vox"
      [] file = "marshall_412_v30.wav" -> "marshall"
      [] OTHER                         -> "fender"

NullBuffer == [kind |-> "null", tag |-> ""]

\* loadInternalIR(filename) once fetch and decodeAudioData have settled: the decoded
\* file, or in the catch setSyntheticCab('fender').
loadedIR(file, ok) ==
    IF ok THEN [kind |-> "file", tag |-> fileModel(file)] ELSE syntheticIR("fender")

\* this.nodes while init awaits setInternalCab: the stages up to the cabinet, whose
\* buffer is not set yet; master, analyser and the connections do not exist.
\* `context` numbers the AudioContext the stages were created in, in the order of
\* the `new AudioContext()` the engine has run.
B_PartialNodes(context) ==
    [f \in ((DOMAIN CreatedNodes) \ {"master", "connections"}) \cup {"context"} |->
        CASE f = "cab"     -> NullBuffer
          [] f = "curve"   -> B_makeDistortionCurve(0)
          [] f = "context" -> context
          [] OTHER         -> CreatedNodes[f]]

\* The branch an earlier run of init's tail leaves behind: the cabinet stays
\* connected to the master that this.nodes.master no longer names.
ReplacedBranch == {<<"cab", "master (replaced)">>,
                   <<"master (replaced)", "analyser (replaced)">>,
                   <<"analyser (replaced)", "destination">>}

\* The rest of init after the await: a new master, a new analyser, and every
\* connect() of the chain (a connect() between two stages already connected
\* changes nothing).
B_FinishNodes(n) ==
    IF "master" \in DOMAIN n
    THEN [n EXCEPT !.master = 10, !.connections = @ \cup Chain \cup ReplacedBranch]
    ELSE n @@ [master |-> 10, connections |-> Chain]

\* The contexts the engine has created so far.
contextsCreated == IF nodes = NoNodes THEN 0 ELSE nodes.context

\* setParam's switch of the bundled engine: preGain times 3 with drive and no
\* updateDistortion, voice times 2.
B_paramNodes(n, param, value, st) ==
    CASE param = "gate"       -> [n EXCEPT !.gateThreshold = 10 * value]
      [] param = "compressor" -> [n EXCEPT !.compRatio = 10 + 110 * value,
                                           !.compThreshold = -300 - 200 * value]
      [] param = "preGain"    -> [n EXCEPT !.preGain = 10 * value * (IF st.drive THEN 3 ELSE 1)]
      [] param = "voice"      -> [n EXCEPT !.voiceGain = 20 * value]
      [] param = "bass"       -> [n EXCEPT !.bass = 10 * value]
      [] param = "mid"        -> [n EXCEPT !.mid = 10 * value]
      [] param = "treble"     -> [n EXCEPT !.treble = 10 * value]
      [] param = "presence"   -> [n EXCEPT !.presence = 10 * value]
      [] param = "master"     -> [n EXCEPT !.master = 2 * value]
      [] OTHER                -> n

\* toggleSwitch's effect on this.nodes in the bundled engine.
B_switchNodes(n, switchName, isActive, amp, st) ==
    CASE switchName = "bright" -> [n EXCEPT !.brightGain = IF isActive THEN 60 ELSE 0]
      [] switchName = "drive"  -> B_updateDistortion(n, amp, switchState(st, switchName, isActive))
      [] OTHER                 -> n

InitBundle ==
    /\ ctx = "null"
    /\ ctxQueue = << >>
    /\ isInitialized = FALSE
    /\ currentAmp = "fender_clean"
    /\ state = [bright |-> FALSE, drive |-> FALSE]
    /\ nodes = NoNodes
    /\ starts = << >>
    /\ decodes = << >>
    /\ loads = << >>
    /\ initPc = "idle"
    /\ calls = 0
    /\ lastCall = NoCall
    /\ lastSettle = NoSettle
    /\ lastPreGain = NotSet
    /\ curveOf = ""
    /\ ampIssue = NoIssue
    /\ driveToggle = NoToggle
    /\ ui = UIConstructed

\* init() of the bundled engine, up to its await of setInternalCab('fender_clean'):
\* the context and the stages up to the cabinet are created, isInitialized is not
\* set yet, so a call made while an earlier one still awaits its load runs the
\* same code again: this.ctx and the stages of this.nodes are replaced by new
\* ones, and what was requested of the replaced context no longer reaches
\* this.ctx.
B_init ==
    /\ Called("init", "", 0, IF isInitialized THEN "undefined" ELSE "promise", FALSE)
    /\ IF isInitialized
       THEN UNCHANGED <<ctx, ctxQueue, nodes, loads, initPc>>
       ELSE /\ Len(loads) < MaxPending
            /\ ctx' = "suspended"
            /\ ctxQueue' = << >>
            /\ nodes' = B_PartialNodes(contextsCreated + 1)
            /\ loads' = Append(loads, [file |-> irFile("fender_clean"), then |-> "init"])
            /\ initPc' = "loading"
    /\ UNCHANGED <<isInitialized, currentAmp, state, starts, decodes, lastSettle,
                   lastPreGain, curveOf, ampIssue>>

\* A loadInternalIR settles, in any order and either way. The load an init call
\* awaits resumes that call: master, analyser, connections, isInitialized, and the
\* closing setAmpModel('fender'), which starts its own load and is not awaited.
B_loadSettle ==
    \E i \in 1..Len(loads), ok \in BOOLEAN :
        LET bound == [nodes EXCEPT !.cab = loadedIR(loads[i].file, ok)] IN
        /\ IF loads[i].then = "init"
           THEN /\ nodes' = B_updateDistortion(B_FinishNodes(bound), "fender", state)
                /\ isInitialized' = TRUE
                /\ currentAmp' = "fender"
                /\ curveOf' = "fender"
                /\ initPc' = IF \E j \in (1..Len(loads)) \ {i} : loads[j].then = "init"
                              THEN "loading" ELSE "idle"
                /\ loads' = Append(RemoveAt(loads, i),
                                   [file |-> irFile("fender"), then |-> "none"])
                /\ lastSettle' = [op |-> "init", ret |-> "undefined"]
           ELSE /\ nodes' = bound
                /\ loads' = RemoveAt(loads, i)
                /\ lastSettle' = [op |-> "setAmpModel", ret |-> "undefined"]
                /\ UNCHANGED <<isInitialized, currentAmp, curveOf, initPc>>
        /\ ampIssue' = Seen(ampIssue, curveOf', nodes'.cab)
        /\ UNCHANGED <<ctx, ctxQueue, state, starts, decodes, calls, lastCall, lastPreGain,
                       driveToggle>>

\* setAmpModel(model) of the bundled engine, up to its await of setInternalCab:
\* currentAmp and the curve change now, the cabinet when the load settles. Without
\* nodes updateDistortion throws and the returned promise is rejected.
B_setAmpModel ==
    \E model \in BundleModels :
        /\ Called("setAmpModel", model, 0, "promise", nodes = NoNodes)
        /\ currentAmp' = model
        /\ IF nodes = NoNodes
           THEN UNCHANGED <<nodes, curveOf, loads>>
           ELSE /\ Len(loads) < MaxPending
                /\ nodes' = B_updateDistortion(nodes, model, state)
                /\ curveOf' = model
                /\ loads' = Append(loads, [file |-> irFile(model), then |-> "none"])
        /\ ampIssue' = IF isInitialized
                        THEN Seen([model |-> model, visible |-> FALSE, paramAfter |-> FALSE],
                                  curveOf', nodes'.cab)
                        ELSE NoIssue
        /\ UNCHANGED <<ctx, ctxQueue, isInitialized, state, starts, decodes, initPc,
                       lastSettle, lastPreGain>>

\* setParam(param, value) of the bundled engine.
B_setParam ==
    \E param \in ParamNames \cup {UnknownName} : \E value \in ParamValues(param) :
        /\ Called("setParam", param, value, "undefined", FALSE)
        /\ IF ~isInitialized
           THEN UNCHANGED <<nodes, lastPreGain, ampIssue>>
           ELSE /\ nodes' = B_paramNodes(nodes, param, value, state)
                /\ lastPreGain' = IF param = "preGain" THEN value ELSE lastPreGain
                /\ ampIssue' = IF ampIssue.model # "" /\ param \in ParamNames
                                THEN [ampIssue EXCEPT !.paramAfter = TRUE]
                                ELSE ampIssue
        /\ UNCHANGED <<ctx, ctxQueue, isInitialized, currentAmp, state, starts, decodes,
                       loads, initPc, lastSettle, curveOf>>

\* toggleSwitch(switchName, isActive) of the bundled engine.
B_toggleSwitch ==
    \E switchName \in SwitchNames \cup {UnknownName}, isActive \in BOOLEAN :
        /\ Called("toggleSwitch", switchName, IF isActive THEN 1 ELSE 0, "undefined", FALSE)
        /\ IF ~isInitialized
           THEN UNCHANGED <<nodes, state, curveOf>>
           ELSE /\ state' = switchState(state, switchName, isActive)
                /\ nodes' = B_switchNodes(nodes, switchName, isActive, currentAmp, state)
                /\ curveOf' = IF switchName = "drive" THEN currentAmp ELSE curveOf
        /\ UNCHANGED <<ctx, ctxQueue, isInitialized, currentAmp, starts, decodes, loads,
                       initPc, lastSettle, lastPreGain, ampIssue>>

NextBundle ==
    \/ B_init /\ UNCHANGED ui
    \/ B_loadSettle /\ UNCHANGED ui
    \/ B_setAmpModel /\ UNCHANGED ui
    \/ B_setParam /\ UNCHANGED ui
    \/ B_toggleSwitch /\ UNCHANGED ui
    \/ togglePower /\ UNCHANGED ui
    \/ ctxApply /\ UNCHANGED ui
    \/ loadIR /\ UNCHANGED ui
    \/ decodeSettle /\ UNCHANGED ui

SpecBundle == InitBundle /\ [][NextBundle]_vars

(***************************************************************************)
(* Claims.                                                                 *)
(***************************************************************************)

\* A step that issues the engine call `op`.
Issues(op) == calls' = calls + 1 /\ lastCall'.op = op

\* C1: whenever the audio path runs (initialized engine, running context), the
\* active curve and the active cabinet buffer belong to the same amp model.
C1_CurveAndCabSameModel ==
    (isInitialized /\ ctx = "running" /\ cabModel(nodes.cab) # "")
        => cabModel(nodes.cab) = family(curveOf)

\* C2: while the audio path runs, once a setParam issued after a setAmpModel(m) on
\* an initialized engine has taken effect, the curve and the cabinet buffer of m
\* have both been in place.
C2_ModelVisibleBeforeParam ==
    (ctx = "running" /\ ampIssue.paramAfter) => ampIssue.visible

\* C3: once setParam('preGain', v) has been called on an initialized engine, the
\* pre-gain stage's gain is the most recently set value times the boost factor (2)
\* when the drive flag is on, and times 1 when it is off.
C3_PreGainFollowsDrive ==
    (isInitialized /\ lastPreGain # NotSet)
        => nodes.preGain = 10 * lastPreGain * (IF state.drive THEN 2 ELSE 1)

Clamp(v, lo, hi) == Min(Max(v, lo), hi)

\* C5: after setParam('master', v) on an initialized engine the master stage's gain
\* is the one of v clamped to the domain [0,10].
C5_MasterClamped ==
    (isInitialized /\ lastCall.op = "setParam" /\ lastCall.name = "master")
        => nodes.master = 2 * Clamp(lastCall.value, 0, 10)

\* C6: the context becomes running only by a resume that togglePower requested.
C6_RunningOnlyByPower ==
    [][(ctx # "running" /\ ctx' = "running") => Head(ctxQueue).by = "togglePower"]_vars

\* C7: when a togglePower request takes effect the context is running exactly when
\* the call returned true; without a context the call returns false and leaves the
\* engine as it was.
C7_PowerReturn ==
    [][/\ (ctxQueue # << >> /\ ctxQueue' = Tail(ctxQueue)
                            /\ Head(ctxQueue).by = "togglePower")
            => ((ctx' = "running") <=> Head(ctxQueue).ret)
       /\ (Issues("togglePower") /\ ctx # "null")
            => /\ ctxQueue' # ctxQueue
               /\ (lastCall'.ret = "true") <=> ctxQueue'[Len(ctxQueue')].ret
       /\ (Issues("togglePower") /\ ctx = "null")
            => (lastCall'.ret = "false" /\ UNCHANGED engine)]_vars

\* C7 witness: two togglePower calls back to back, neither applied yet.
C7_Witness ==
    /\ Len(ctxQueue) = 2
    /\ \A i \in 1..2 : ctxQueue[i].by = "togglePower"

\* C8: init on an initialized engine changes nothing of the engine.
C8_InitIdempotent ==
    [][(Issues("init") /\ isInitialized) => UNCHANGED engine]_vars

\* C8 witness: a second init after the amp model, the curve and the cabinet were
\* changed, all still in place.
C8_Witness ==
    /\ isInitialized
    /\ lastCall.op = "init"
    /\ currentAmp = "vox"
    /\ nodes.cab = syntheticIR("vox")

\* C9: setParam, toggleSwitch, setAmpModel and loadIR before init do not throw and
\* leave the current amp model, the flags and the nodes unchanged.
C9_BeforeInitNoEffect ==
    [][(~isInitialized /\ calls' = calls + 1
          /\ lastCall'.op \in {"setParam", "toggleSwitch", "setAmpModel", "loadIR"})
        => (~lastCall'.threw /\ UNCHANGED <<currentAmp, state, nodes>>)]_vars

\* C10: a loadIR whose bytes fail to decode returns false and leaves the cabinet
\* stage bound to the buffer it had; an initialized engine always has a buffer bound.
C10_FailedLoadKeepsCab ==
    /\ [](isInitialized => nodes.cab.kind \in {"synthetic", "custom"})
    /\ [][\A i \in 1..Len(decodes) :
             (decodes' = RemoveAt(decodes, i) /\ ~Decodes(decodes[i])
                /\ \A j \in 1..Len(decodes) : (decodes' = RemoveAt(decodes, j))
                                                  => ~Decodes(decodes[j]))
             => (lastSettle' = [op |-> "loadIR", ret |-> "false"]
                 /\ nodes'.cab = nodes.cab)]_vars

\* C10 witness: a failed loadIR has settled and the IR uploaded before it is still
\* bound.
C10_Witness ==
    /\ lastSettle = [op |-> "loadIR", ret |-> "false"]
    /\ decodes = << >>
    /\ nodes.cab.kind = "custom"

\* A step in which a loadIR call ends in its catch.
LoadIRFails == Len(decodes') < Len(decodes) /\ lastSettle' = [op |-> "loadIR", ret |-> "false"]

\* C11: when an impulse response fails to decode, the cabinet stage ends up bound
\* to the synthetic IR of the currently selected amp model.
C11_FailedLoadFallsBack ==
    [][LoadIRFails => nodes'.cab = syntheticIR(currentAmp')]_vars

\* A step in which a startInput call ends in its catch.
StartInputFails ==
    Len(starts') < Len(starts) /\ lastSettle' = [op |-> "startInput", ret |-> "false"]

\* C12: when getUserMedia fails inside startInput, the call returns false and the
\* context is not running.
C12_DeviceFailureNotRunning ==
    [][StartInputFails => ctx' # "running"]_vars

\* C13: after toggleSwitch('drive', true) followed at once by
\* toggleSwitch('drive', false), finalAmount and the active curve are what they
\* were before the pair, whatever the engine's state was.
C13_DriveOnOffRestores ==
    driveToggle.phase = "onoff"
        => /\ nodes.curve = driveToggle.curve
           /\ finalAmount200(nodes.preGain, currentAmp, state.drive) = driveToggle.curve.amount

\* C13, amended: the same, from the states in which the drive flag is off.
C13_DriveOnOffRestoresFromOff ==
    (driveToggle.phase = "onoff" /\ ~driveToggle.drive)
        => /\ nodes.curve = driveToggle.curve
           /\ finalAmount200(nodes.preGain, currentAmp, state.drive) = driveToggle.curve.amount

\* C13 witness: drive switched on and off again on a marshall whose drive was off;
\* the curve is back.
C13_Witness ==
    /\ driveToggle.phase = "onoff"
    /\ ~driveToggle.drive
    /\ currentAmp = "marshall"
    /\ nodes.curve = driveToggle.curve

\* C14: the gain factor of updateDistortion lies in [0,1], so finalAmount lies
\* between 0.2 x baseAmount and baseAmount, for every pre-gain the GAIN knob and the
\* drive boost can produce.
C14_GainFactorInUnitRange ==
    isInitialized
        => /\ gainFactor80(nodes.preGain) \in 0..80
           /\ nodes.curve.amount >= 20 * baseAmount2(currentAmp, state.drive)
           /\ nodes.curve.amount <= 100 * baseAmount2(currentAmp, state.drive)

\* C15: a setParam('preGain', .) that raises the pre-gain stage's gain, the amp model
\* and the drive flag being what they were, does not lower finalAmount, and one
\* that lowers the gain does not raise it.
C15_AmountMonotoneInPreGain ==
    [][(Issues("setParam") /\ lastCall'.name = "preGain" /\ isInitialized)
        => /\ (nodes'.preGain >= nodes.preGain)
                => nodes'.curve.amount >= nodes.curve.amount
           /\ (nodes'.preGain <= nodes.preGain)
                => nodes'.curve.amount <= nodes.curve.amount]_vars

\* C15 witness: with drive on, the GAIN knob was turned up past the stage's initial
\* gain and finalAmount went up with it.
C15_Witness ==
    /\ isInitialized
    /\ lastCall.op = "setParam"
    /\ lastCall.name = "preGain"
    /\ state.drive
    /\ nodes.preGain > InitNodes.preGain
    /\ nodes.curve.amount > finalAmount200(InitNodes.preGain, currentAmp, state.drive)

\* C16: the table of the active curve is odd-symmetric: every entry at x has an
\* entry at -x, holding the opposite value.
C16_CurveOddSymmetric ==
    isInitialized
        => LET table == curveTable(nodes.curve) IN
           \A i \in DOMAIN table : \E j \in DOMAIN table :
               /\ table[j].x = -table[i].x
               /\ table[j].y = -table[i].y

\* C17: for an amount of 1 or more, the first entry of the active curve's table is
\* -1 and its last entry is +1.
C17_CurveEndpoints ==
    (isInitialized /\ nodes.curve.amount >= 200)
        => LET table == curveTable(nodes.curve) IN
           /\ table[0].y = -curveOne(nodes.curve)
           /\ table[n_samples - 1].y = curveOne(nodes.curve)

\* C18: the synthetic IR bound to the cabinet stage has two channels, is half a
\* second long at the context's sample rate, and holds the same value in its left
\* and right channel at every index.
C18_SyntheticIRShape ==
    isInitialized
        => LET b == nodes.cab IN
           /\ b.numberOfChannels = 2
           /\ 2 * b.length = b.sampleRate
           /\ Len(b.left) = b.length
           /\ Len(b.right) = b.length
           /\ \A i \in 1..b.length : b.left[i] = b.right[i]

\* C18 witness: a marshall IR of four samples whose averaged last sample is not
\* zero.
C18_Witness ==
    /\ isInitialized
    /\ currentAmp = "marshall"
    /\ nodes.cab.tag = "marshall"
    /\ nodes.cab.length = 4
    /\ nodes.cab.right[4] # 0
    /\ nodes.cab.right[4] # decayed(4, 1, 3)

\* C19: toggleSwitch with a name other than 'bright' and 'drive', and setParam with
\* an unknown parameter name, do not throw and leave the stages' parameters, the
\* curve, the cabinet buffer and the drive and bright flags as they were.
C19_UnknownNameNoOp ==
    [][((Issues("setParam") \/ Issues("toggleSwitch")) /\ lastCall'.name = UnknownName)
        => (~lastCall'.threw /\ UNCHANGED <<nodes, state>>)]_vars

\* C19 witness: setParam with an unknown name on an engine whose master volume was
\* set before; the setting is still there.
C19_Witness ==
    /\ isInitialized
    /\ lastCall.op = "setParam"
    /\ lastCall.name = UnknownName
    /\ nodes.master # InitNodes.master

\* C20: on an initialized engine the stages are connected gate -> bright ->
\* compressor -> pre-gain -> voice -> distortion -> bass -> mid -> treble ->
\* presence -> cabinet -> master -> analyser -> output, in every state; the one
\* other connection there can be is the input source's to the gate.
C20_StageOrderFixed ==
    isInitialized
        => LET order == <<"gate", "bright", "compressor", "preGain", "voice", "distortion",
                          "bass", "mid", "treble", "presence", "cab", "master", "analyser",
                          "destination">>
               chain == {<<order[i], order[i + 1]>> : i \in 1..(Len(order) - 1)}
           IN /\ nodes.connections \ {<<"source", "gate">>} = chain
              /\ (<<"source", "gate">> \in nodes.connections) <=> (nodes.source = "stream")

\* C20 witness: an input source is attached, and the amp model and the cabinet IR
\* were changed after init.
C20_Witness ==
    /\ isInitialized
    /\ nodes.source = "stream"
    /\ <<"source", "gate">> \in nodes.connections
    /\ currentAmp = "marshall"
    /\ nodes.cab.kind = "custom"

\* C21: the meter level a refresh tick sets is within [0, 100], whatever bytes the
\* analyser delivered.
C21_MeterInRange ==
    /\ ui.vuOut >= 0
    /\ ui.vuOut <= 100 * 32 * frequencyBinCount

\* C21 witness: a tick has read bytes whose average is above 32 and the meter
\* stands at 100.
C21_Witness ==
    /\ isInitialized
    /\ ui.vuOut = 100 * 32 * frequencyBinCount

\* No handler of the UI is under way and the platform has nothing left to apply.
UIQuiet == ui.micro = "none" /\ starts = << >> /\ ctxQueue = << >>

\* C22: when every start-button and power-button handler has completed, the power
\* indicator is active exactly when the context is running.
C22_IndicatorIffRunning ==
    UIQuiet => (ui.powerActive <=> ctx = "running")

\* No load, decode or init of the bundled engine is in flight.
LoadsQuiet == isInitialized /\ loads = << >> /\ decodes = << >> /\ initPc = "idle"

\* C23: in the engine that loads cabinet IRs asynchronously, once every overlapping
\* setAmpModel and loadIR has completed, the cabinet buffer is the one the most
\* recently issued call asked for, whatever the order the loads finished in. Stated
\* for a setAmpModel issued last whose loads all succeeded: the cabinet holds the
\* file of that model.
C23_LastIssuedCabWins ==
    (LoadsQuiet /\ lastCall.op = "setAmpModel" /\ nodes.cab.kind = "file")
        => nodes.cab.tag = fileModel(irFile(lastCall.name))

\* C26: in the engine whose init awaits the cabinet load, calling init again while
\* a first call is still in progress creates only one audio context and one stage
\* graph: the stages the engine references come from the first context, and once
\* connected they form the single chain from gate to destination.
C26_OneContextOneGraph ==
    nodes # NoNodes =>
        /\ nodes.context = 1
        /\ "connections" \in DOMAIN nodes => nodes.connections = Chain

\* C24: whenever the engine is initialized and no handler is in progress, the amp
\* the UI shows as selected is the engine's currentAmp, and the curve and the
\* model cabinet belong to it; so a model chosen before init is still the
\* engine's model once init has completed.
C24_SelectedAmpIsEngineAmp ==
    (isInitialized /\ UIQuiet /\ decodes = << >>)
        => /\ ui.selectedAmp = currentAmp
           /\ curveOf = currentAmp
           /\ nodes.cab.kind = "synthetic" => nodes.cab.tag = currentAmp

\* C25: whenever the cabinet display names a custom IR, the cabinet stage holds
\* that uploaded IR, never a synthetic model IR.
C25_CustomDisplayMeansCustomCab ==
    ui.cabDisplay.kind = "custom" => nodes.cab = decodedIR(ui.cabDisplay.of)

\* C27: the UI issues setParam only while a drag is on (after a startDrag, before
\* the next endDrag), for the knob that started the drag, with a value within
\* that knob's [min, max]; and isDragging is true exactly when currentKnob is set.
C27_SetParamOnlyWhileDragging ==
    [][/\ ui.isDragging <=> ui.currentKnob # "null"
       /\ ui'.isDragging <=> ui'.currentKnob # "null"
       /\ Issues("setParam") =>
            /\ ui.isDragging
            /\ ui.currentKnob \in Knobs
            /\ lastCall'.name = ui.currentKnob
            /\ lastCall'.value >= knobMin(ui.currentKnob)
            /\ lastCall'.value <= knobMax(ui.currentKnob)]_vars

\* C27 witness: during a drag, on an initialized engine, a movement past the end
\* of the knob's range has been passed to setParam as the end of the range.
C27_Witness ==
    /\ isInitialized
    /\ ui.isDragging
    /\ lastCall.op = "setParam"
    /\ lastCall.name = ui.currentKnob
    /\ lastCall.value = knobMin(ui.currentKnob)
    /\ ui.startValue > knobMin(ui.currentKnob)
    /\ ui.knobValue[ui.currentKnob] = lastCall.value

\* C28: a change of the gate switch completes without error, and on an
\* initialized engine leaves the gate threshold at 0 when switched off and at the
\* gate knob's value when switched on.
C28_GateSwitchSetsThreshold ==
    [][ui'.switches["gate"] # ui.switches["gate"] =>
            /\ ~ui'.threw
            /\ isInitialized =>
                 nodes'.gateThreshold = IF ui'.switches["gate"]
                                        THEN 10 * ui.knobValue["gate"]
                                        ELSE 0]_vars

====
